---- MODULE Spec2Model ----
(***************************************************************************)
(* Model of maua/diffusion/wrappers/guided.py: the GuidedDiffusion wrapper *)
(* (construction, sample, forward) around the guided_diffusion schedule.   *)
(*                                                                         *)
(* Python's None is the empty sequence <<>>, a present value v is <<v>>.   *)
(* An image tensor is a record [shape, val]; the one-step samplers and     *)
(* q_sample are opaque callables of the guided_diffusion submodule: they   *)
(* return any tensor of the shape of their input, and they are functions   *)
(* (the same arguments give the same result as in the recorded run).       *)
(* The progress bar (verbose / tqdm, lines 267-268) only wraps the range   *)
(* and changes no state; it is left out.                                   *)
(***************************************************************************)
EXTENDS Integers, Sequences, FiniteSets, TLC

\* ---------------------------------------------------------------- bounds
MaxT == 2       \* timesteps given to the constructor: 1..MaxT
MaxStep == 2    \* start_step and n_steps of a call: 0..MaxStep
MaxLevel == 1   \* q_sample of a call: None or 0..MaxLevel

\* ---------------------------------------------------------------- values
None == <<>>
Some(x) == <<x>>

Shapes == {"1x3x64x64", "1x3x128x128"}
Vals == {0, 1}
Imgs == [shape : Shapes, val : Vals]
Prompts == {"cat", "dog"}
KnownSamplers == {"p", "ddim", "plms"}
SamplerKinds == KnownSamplers \cup {"euler"}
\* the class labels torch.randint(0, num_classes) can draw
Classes == {0}
\* model_kwargs: no "y" entry, or a class label
Labels == {None, Some(1)}

VARIABLES
    pc,         \* "none" | "idle" | "stepping" | "done" | "aborted"
    sampler,    \* the sampler kind given to __init__
    sample_fn,  \* self.sample_fn: the bound kind, or "unset" (no attribute)
    T,          \* len(self.diffusion.use_timesteps)
    targets,    \* the targets held by self.conditioning
    entry,      \* "sample" | "forward": the public operation of the run
    shape,      \* forward's shape argument
    args,       \* the arguments of the running call of sample
    img,        \* sample's local img
    out,        \* sample's local out (its last value stays in storage until
                \* line 270 of the next run overwrites it)
    kw_y,       \* model_kwargs["y"], None when absent
    i,          \* the next value of the loop variable
    q,          \* sample's local q_sample after defaulting
    calls,      \* the one-step-sampler invocations of the run, in order
    qcalls,     \* the q_sample invocations of the run, in order
    result,     \* the value sample returned, None while it has not returned
    replaying,  \* the run repeats the recorded call
    saved       \* a recorded completed run, None when none is recorded

vars == <<pc, sampler, sample_fn, T, targets, entry, shape, args, img, out, kw_y,
          i, q, calls, qcalls, result, replaying, saved>>

wrapperVars == <<sampler, sample_fn, T>>
runVars == <<entry, shape, args, replaying>>

NoImg == [shape |-> "1x3x64x64", val |-> 0]
NoArgs == [img |-> NoImg, prompts |-> "cat", start_step |-> 0, n_steps |-> 0,
           y |-> None, randomize_class |-> FALSE, q_sample |-> None, noise |-> None]

\* the image callers pass to sample; forward draws its own, of any shape
CallerImgs == {[shape |-> "1x3x64x64", val |-> 1]}

SampleArgs == [img : CallerImgs, prompts : Prompts, start_step : 0..MaxStep,
               n_steps : 0..MaxStep, y : Labels, randomize_class : BOOLEAN,
               q_sample : {None} \cup {Some(n) : n \in 0..MaxLevel},
               noise : {None, Some(1)}]

\* ------------------------------------------------ the code's expressions
\* __init__, lines 232-239: the if/elif chain has no else branch, so another
\* kind leaves the object without a sample_fn attribute.
SelectSampleFn(kind) ==
    IF kind = "p" THEN "p"
    ELSE IF kind = "ddim" THEN "ddim"
    ELSE IF kind = "plms" THEN "plms"
    ELSE "unset"

\* self.sample_fn(out): "lambda _" ignores out, plms binds old_out=out.
OldOutArg(fn, o) == IF fn = "plms" THEN o ELSE None

SetTargetsKeepFirst(old, prompts) == IF old = None THEN Some(prompts) ELSE old
\* self.conditioning.set_targets(prompts), line 258
SetTargets(old, prompts) == Some(prompts)

DefaultQFalsy(qs, start_step) == IF qs = None \/ qs = Some(0) THEN start_step ELSE qs[1]
\* lines 260-261
DefaultQ(qs, start_step) == IF qs = None THEN start_step ELSE qs[1]

ShouldNoiseAlways(n) == n >= 0
\* line 262
ShouldNoise(n) == n > 0

\* line 263: t = ones * q_sample - 1
NoiseT(n) == n - 1

\* line 266: range(start_step - 1, start_step - n_steps - 1, -1)
FirstStep(start_step) == start_step - 1

StopStepShort(start_step, n_steps) == start_step - n_steps
StopStep(start_step, n_steps) == start_step - n_steps - 1

InitOutStale(o) == o
\* line 270: out = None
InitOut(o) == None

NextImgPred(o) == o.pred_xstart
\* line 279: img = out["sample"]
NextImg(o) == o.sample

ForwardStepsShort(n) == n - 1
\* line 285: steps = len(self.diffusion.use_timesteps)
ForwardSteps(n) == n

OnStepErrorSwallow(at) == "stepping"
\* No try/except surrounds line 278: an exception leaves sample.
OnStepError(at) == "aborted"

\* ------------------------------------------------ the external callables
\* Each is a function of its arguments and of the generator's seed: a call
\* the recorded run made returns what it returned there.
SavedRun == saved[1]
SavedCalls == IF saved = None THEN {}
              ELSE {SavedRun.calls[k] : k \in 1..Len(SavedRun.calls)}
SavedQCalls == IF saved = None THEN {}
               ELSE {SavedRun.qcalls[k] : k \in 1..Len(SavedRun.qcalls)}

SameShape(x) == {y \in Imgs : y.shape = x.shape}

StepCall(fn, x, t, old, y, tg, o) ==
    [fn |-> fn, img |-> x, t |-> t, old_out |-> old, y |-> y, targets |-> tg,
     out |-> o]

\* p_sample / ddim_sample / plms_sample(model, img, t, cond_fn, model_kwargs):
\* {"sample": ..., "pred_xstart": ...}
StepResults(fn, x, t, old, y, tg) ==
    LET known == {d \in SavedCalls :
                    /\ d.fn = fn /\ d.img = x /\ d.t = t /\ d.old_out = old
                    /\ d.y = y /\ d.targets = tg}
    IN  IF known # {} THEN {d.out[1] : d \in known}
        ELSE [sample : SameShape(x), pred_xstart : {[shape |-> x.shape, val |-> 0]}]

QCall(x, t, n, o) == [img |-> x, t |-> t, noise |-> n, out |-> o]

\* diffusion.q_sample(img, t, noise)
QResults(x, t, n) ==
    LET known == {d \in SavedQCalls : d.img = x /\ d.t = t /\ d.noise = n}
    IN  IF known # {} THEN {d.out : d \in known} ELSE SameShape(x)

\* torch.randint(0, num_classes, ...) of the iteration at timestep t
RandintResults(t) ==
    LET known == {d \in SavedCalls : d.t = t}
    IN  IF known # {} /\ SavedRun.args.randomize_class
        THEN {d.y : d \in known} ELSE {Some(c) : c \in Classes}

\* torch.randn(*shape)
RandnResults(sh) ==
    IF saved # None /\ SavedRun.entry = "forward" /\ SavedRun.shape = sh
    THEN {SavedRun.args.img} ELSE {x \in Imgs : x.shape = sh}

\* ---------------------------------------------------------------- actions
Init ==
    /\ pc = "none" /\ sampler = "" /\ sample_fn = "unset" /\ T = 0
    /\ targets = None /\ entry = "sample" /\ shape = "1x3x64x64"
    /\ args = NoArgs /\ img = NoImg /\ out = None
    /\ kw_y = None /\ i = 0 /\ q = 0 /\ calls = <<>> /\ qcalls = <<>>
    /\ result = None /\ replaying = FALSE /\ saved = None

NoRun ==
    /\ entry' = "sample" /\ shape' = "1x3x64x64" /\ args' = NoArgs /\ img' = NoImg
    /\ kw_y' = None /\ i' = 0 /\ q' = 0 /\ calls' = <<>> /\ qcalls' = <<>>
    /\ result' = None /\ replaying' = FALSE

\* GuidedDiffusion.__init__: a new wrapper object.
Construct(kind, n) ==
    /\ pc \in {"none", "idle"}
    /\ sampler' = kind
    /\ T' = n
    /\ sample_fn' = SelectSampleFn(kind)
    /\ targets' = None
    /\ out' = None
    /\ pc' = "idle"
    /\ NoRun
    /\ UNCHANGED saved

\* sample, lines 258-270, called with arguments a.
RunSample(a) ==
    LET n == DefaultQ(a.q_sample, a.start_step)
    IN  /\ targets' = SetTargets(targets, a.prompts)
        /\ args' = a
        /\ q' = n
        /\ IF ShouldNoise(n)
           THEN \E o \in QResults(a.img, NoiseT(n), a.noise) :
                    /\ img' = o
                    /\ qcalls' = <<QCall(a.img, NoiseT(n), a.noise, o)>>
           ELSE /\ img' = a.img
                /\ qcalls' = <<>>
        /\ i' = FirstStep(a.start_step)
        /\ out' = InitOut(out)
        /\ kw_y' = a.y
        /\ calls' = <<>>
        /\ result' = None
        /\ replaying' = (saved # None)
        /\ pc' = "stepping"

\* A caller invokes sample(img, prompts, start_step, n_steps, ...).
SampleCall(a) ==
    /\ pc = "idle"
    /\ entry' = "sample"
    /\ RunSample(a)
    /\ UNCHANGED <<wrapperVars, shape, saved>>

\* forward(shape, prompts, model_kwargs), lines 283-286.
Forward(sh, pr, y) ==
    /\ pc = "idle"
    /\ entry' = "forward"
    /\ shape' = sh
    /\ \E x \in RandnResults(sh) :
         LET steps == ForwardSteps(T)
         IN  RunSample([img |-> x, prompts |-> pr, start_step |-> steps,
                        n_steps |-> steps, y |-> y, randomize_class |-> FALSE,
                        q_sample |-> None, noise |-> None])
    /\ UNCHANGED <<wrapperVars, saved>>

InLoop == pc = "stepping" /\ i > StopStep(args.start_step, args.n_steps)

\* lines 272-275: the labels model_kwargs["y"] can hold after them
LoopY == IF args.randomize_class /\ kw_y # None THEN RandintResults(i) ELSE {kw_y}

\* One iteration of the loop, lines 271-279, the sampler returning.
Step ==
    /\ InLoop
    /\ sample_fn # "unset"
    /\ \E y \in LoopY :
         LET old == OldOutArg(sample_fn, out)
         IN  \E o \in StepResults(sample_fn, img, i, old, y, targets) :
               /\ calls' = Append(calls, StepCall(sample_fn, img, i, old, y,
                                                  targets, Some(o)))
               /\ out' = Some(o)
               /\ img' = NextImg(o)
               /\ kw_y' = y
    /\ i' = i - 1
    /\ UNCHANGED <<pc, wrapperVars, targets, runVars, q, qcalls, result, saved>>

\* One iteration of the loop in which the sampler raises.
StepRaise ==
    /\ InLoop
    /\ sample_fn # "unset"
    /\ \E y \in LoopY :
         /\ calls' = Append(calls, StepCall(sample_fn, img, i,
                                            OldOutArg(sample_fn, out), y, targets, None))
         /\ kw_y' = y
    /\ pc' = OnStepError(i)
    /\ UNCHANGED <<wrapperVars, targets, runVars, img, out, i, q, qcalls, result,
                   saved>>

\* One iteration on an object without sample_fn: line 278 raises AttributeError
\* before any sampler is called.
StepUnbound ==
    /\ InLoop
    /\ sample_fn = "unset"
    /\ \E y \in LoopY : kw_y' = y
    /\ pc' = OnStepError(i)
    /\ UNCHANGED <<wrapperVars, targets, runVars, img, out, i, q, calls, qcalls,
                   result, saved>>

\* line 281: the loop is exhausted, sample returns img.
Return ==
    /\ pc = "stepping"
    /\ ~ InLoop
    /\ result' = Some(img)
    /\ pc' = "done"
    /\ UNCHANGED <<wrapperVars, targets, runVars, img, out, kw_y, i, q, calls,
                   qcalls, saved>>

\* The caller has the returned image or the exception: the frame of sample is
\* gone, the wrapper object can be called again.
Leave ==
    /\ pc \in {"done", "aborted"}
    /\ pc' = "idle"
    /\ NoRun
    /\ UNCHANGED <<wrapperVars, targets, out, saved>>

\* The caller keeps a completed run as the reference of a later comparison;
\* from then on it reseeds the generator as before that run and repeats the
\* call, on this wrapper or on an equally configured new one.
Save ==
    /\ pc = "done"
    /\ saved = None
    /\ saved' = Some([sampler |-> sampler, T |-> T, entry |-> entry, shape |-> shape,
                      args |-> args, calls |-> calls, qcalls |-> qcalls,
                      result |-> result])
    /\ UNCHANGED <<pc, wrapperVars, targets, runVars, img, out, kw_y, i, q,
                   calls, qcalls, result>>

\* what the caller passes: anything, or the recorded call again
CallKinds == IF saved = None THEN SamplerKinds ELSE {SavedRun.sampler}
CallT == IF saved = None THEN 1..MaxT ELSE {SavedRun.T}
CallArgs == IF saved = None THEN SampleArgs
            ELSE IF SavedRun.entry = "sample" THEN {SavedRun.args} ELSE {}
CallShapes == IF saved = None THEN Shapes
              ELSE IF SavedRun.entry = "forward" THEN {SavedRun.shape} ELSE {}
CallPrompts == IF saved = None THEN Prompts ELSE {SavedRun.args.prompts}
CallLabels == IF saved = None THEN Labels ELSE {SavedRun.args.y}

Next ==
    \/ \E kind \in CallKinds, n \in CallT : Construct(kind, n)
    \/ \E a \in CallArgs : SampleCall(a)
    \/ \E sh \in CallShapes, pr \in CallPrompts, y \in CallLabels : Forward(sh, pr, y)
    \/ Step
    \/ StepRaise
    \/ StepUnbound
    \/ Return
    \/ Leave
    \/ Save

Spec == Init /\ [][Next]_vars

\* ------------------------------------------------------------------ claims
InRun == pc \in {"stepping", "done", "aborted"}
Last(sq) == sq[Len(sq)]
\* the image the loop starts from: the caller's, after the optional noising
StartImg == IF qcalls # <<>> THEN qcalls[1].out ELSE args.img

\* C1: a run of sample(start_step=S, n_steps=N) passes timestep S-k to its k-th
\* sampler invocation, and a run that returns has made exactly N invocations.
C1_StepSequence ==
    /\ \A k \in 1..Len(calls) : calls[k].t = args.start_step - k
    /\ pc = "done" => Len(calls) = args.n_steps

C1_Witness ==
    /\ pc = "done" /\ entry = "sample"
    /\ args.start_step = 1 /\ args.n_steps = 2 /\ Len(calls) = 2

\* C2: with plms, the first invocation of every run gets old_out = None and
\* every later one gets the whole output of the invocation before it.
C2_PlmsHistory ==
    sample_fn = "plms" =>
        \A k \in 1..Len(calls) :
            calls[k].old_out = IF k = 1 THEN None ELSE calls[k - 1].out

C2_Witness ==
    /\ sample_fn = "plms" /\ Len(calls) = 2
    /\ calls[2].old_out = calls[1].out /\ calls[1].out # None

\* C3: with q_sample=0 no q_sample call is made and the first invocation gets
\* the caller's image.
C3_NoNoiseAtZero ==
    (InRun /\ args.q_sample = Some(0)) =>
        /\ qcalls = <<>>
        /\ calls # <<>> => calls[1].img = args.img

C3_Witness ==
    /\ InRun /\ args.q_sample = Some(0) /\ args.start_step = 2 /\ Len(calls) >= 1

\* C4: forward runs sample with start_step = n_steps = T; when it returns, the
\* sampler was invoked T times, at T-1 down to 0, and the result has the
\* requested shape.
C4_ForwardFullRun ==
    (InRun /\ entry = "forward") =>
        /\ args.start_step = T /\ args.n_steps = T
        /\ pc = "done" =>
              /\ Len(calls) = T
              /\ \A k \in 1..T : calls[k].t = T - k
              /\ result # None /\ result[1].shape = shape

C4_Witness ==
    /\ pc = "done" /\ entry = "forward" /\ T = MaxT /\ Len(calls) = MaxT
    /\ shape = "1x3x128x128"

\* C5: no wrapper object exists whose sampler kind is not p, ddim or plms.
C5_UnknownSamplerRejected ==
    pc # "none" => sampler \in KnownSamplers

\* C6: an invocation that raised is the last of its run, the run is aborted
\* and has returned nothing; a run that returned made all its invocations.
C6_AbortsWithoutContinuation ==
    /\ \A k \in 1..Len(calls) :
          calls[k].out = None => (k = Len(calls) /\ pc = "aborted")
    /\ pc = "aborted" => result = None
    /\ pc = "done" => (result # None /\ Len(calls) = args.n_steps)

C6_Witness ==
    /\ pc = "aborted" /\ args.n_steps = 2 /\ Len(calls) = 1
    /\ calls[1].out = None /\ result = None

\* C7 as stated: at most one q_sample call, and only when the caller passed a
\* forward-noise level > 0 (none without a level).
C7_NoiseOnlyOnRequest ==
    /\ Len(qcalls) <= 1
    /\ qcalls # <<>> => (args.q_sample # None /\ args.q_sample[1] > 0)

\* the level sample uses: the caller's, start_step when the caller gave none
C7_Level == IF args.q_sample = None THEN args.start_step ELSE args.q_sample[1]

\* C7 amended: a run makes one q_sample call, on the caller's image at
\* timestep level-1, exactly when its level (the caller's q_sample, start_step
\* when the caller gave none) is > 0, and otherwise none; the call is made on
\* entry, before any sampler invocation, never while stepping.
C7_NoiseOnceBeforeStepping ==
    /\ [](InRun =>
            IF C7_Level > 0
            THEN /\ Len(qcalls) = 1
                 /\ qcalls[1].t = C7_Level - 1
                 /\ qcalls[1].img = args.img
            ELSE qcalls = <<>>)
    /\ [][qcalls' # qcalls => (pc # "stepping" /\ calls' = <<>>)]_vars

C7_Witness ==
    /\ InRun /\ args.q_sample = None /\ args.start_step = 2
    /\ Len(qcalls) = 1 /\ Len(calls) >= 1

\* C8: a completed run that repeats the recorded call on an equally configured
\* wrapper made the same q_sample and sampler invocations and returned the
\* same image as the recorded run.
C8_Determinism ==
    (/\ pc = "done" /\ replaying
     /\ sampler = SavedRun.sampler /\ T = SavedRun.T /\ entry = SavedRun.entry
     /\ shape = SavedRun.shape /\ args = SavedRun.args) =>
        /\ calls = SavedRun.calls
        /\ qcalls = SavedRun.qcalls
        /\ result = SavedRun.result

C8_Witness ==
    /\ pc = "done" /\ replaying /\ args = SavedRun.args
    /\ sample_fn = "plms" /\ Len(calls) = 2 /\ Len(qcalls) = 1
    /\ args.randomize_class /\ args.y # None
    /\ result = SavedRun.result

\* C9: the first invocation gets the start image, every later one the "sample"
\* of the invocation before it, and sample returns the last "sample" (the
\* start image when no step ran).
C9_ImageChain ==
    /\ \A k \in 1..Len(calls) :
          calls[k].img = IF k = 1 THEN StartImg ELSE calls[k - 1].out[1].sample
    /\ pc = "done" =>
          result = Some(IF calls = <<>> THEN StartImg ELSE Last(calls).out[1].sample)

C9_Witness ==
    /\ pc = "done" /\ Len(calls) = 2 /\ qcalls # <<>>
    /\ calls[1].out[1].sample # calls[1].out[1].pred_xstart
    /\ result = Some(calls[2].out[1].sample)

\* C10: every timestep given to a sampler or to q_sample is in 0..T-1.
C10_TimestepInRange ==
    /\ \A k \in 1..Len(calls) : calls[k].t \in 0..(T - 1)
    /\ \A k \in 1..Len(qcalls) : qcalls[k].t \in 0..(T - 1)

====
